---- MODULE Spec2Model ----
(***************************************************************************)
(* Model of the candidate search and best-match ranking of                 *)
(* GpAudioDownloader: YouTubeSearcher.search, its two source strategies    *)
(* (_search_youtube_scraping, _search_invidious) and get_best_match        *)
(* (src/youtube_search.py).                                                *)
(*                                                                         *)
(* Backend responses are inputs: each is drawn when the request that       *)
(* receives it is made.  The scraped page is read sequentially by the      *)
(* code, so its sections and items are drawn one at a time as the          *)
(* traversal reaches them.  Python exceptions are values in flight (exc)   *)
(* that each try/except either catches or lets through.                    *)
(***************************************************************************)
EXTENDS Integers, Sequences, FiniteSets, TLC

VARIABLES
    pc,            \* position of the call in progress
    caller,        \* entry point that was called: "search" or "get_best_match"
    artist,        \* get_best_match argument artist
    title,         \* get_best_match argument title
    max_results,   \* argument of search
    results,       \* the local list `results` of the source strategy running
    fetched,       \* _search_youtube_scraping: outcome of the page fetch and parse
    fault,         \* _search_youtube_scraping: exception raised by the traversal
    secCount,      \* sections of the page read so far
    itemCount,     \* items of the page read so far
    inst,          \* _search_invidious: index of the instance being tried
    response,      \* _search_invidious: response of the instance just queried
    contacted,     \* hosts a request was sent to so far, in order
    yields,        \* per mirror contacted, in order: how many candidates it yielded
    ret,           \* return value of the source strategy that just returned
    exc,           \* exception in flight out of the function that just exited
    primaryRet,    \* search: what _search_youtube_scraping returned to it
    searchRet,     \* what search gave its caller: [kind, list]
    outcome,       \* what get_best_match gave its caller: [kind, url]
    lastItem,      \* _search_youtube_scraping: the loop variable `item`, last item read
    seenVideos,    \* _search_invidious: the entries typed "video" of the last response:
                   \* among its first max_results entries (head) and in all of it (all)
    sTitle,        \* get_best_match loop body: result['title'] of the result being scored
    result_title,  \* get_best_match loop body: the local `result_title`
    sStep,         \* get_best_match loop body: the scoring rule to apply next
    score,         \* get_best_match loop body: the local `score`
    sDeltas,       \* the change each rule applied so far made to `score`, by rule
    query,         \* AudioDownloader._search_youtube: the argument query
    attempts,      \* _search_youtube: the get_best_match calls made so far, in order:
                   \* the query of each and what it gave
    best_url,      \* _search_youtube: what it gave its caller: [kind, url]
    wpc,              \* DownloadWorker.run: position of the worker thread
    stop_requested,   \* DownloadWorker._stop_requested
    pause_requested,  \* DownloadWorker._pause_requested
    filtered_files,   \* run: the local list filtered_files
    idx,              \* run: 1 + the loop variable i: the file of the iteration
    processed_files,  \* run: the local set processed_files
    cache,            \* the lines of the cache file .gp_downloader_cache.txt
    loaded,           \* what _load_cache read at the start of the run
    existed,          \* files of this run for which _audio_file_exists was true
    succeeded,        \* files of this run for which download_audio returned True
    failed,           \* files of this run for which download_audio returned False
    emitted,          \* the signals download_completed / error_occurred emitted
    stopAt,           \* idx of the download in progress when stop() was first called
    startedPaused,    \* the download in progress began with pause requested, stop not
    download_worker,  \* MainWindow.download_worker: 0 for None, or a worker
    workers,          \* the DownloadWorkers created: [running, stop, pause] of each
    download_button,  \* MainWindow.download_button is enabled
    pause_button,     \* MainWindow.pause_button is enabled
    stop_button,      \* MainWindow.stop_button is enabled
    is_paused,        \* MainWindow.is_paused
    gui,              \* the window's thread: "idle" in its event loop, or "waiting" in wait(3000)
    signals           \* the signals of the workers queued for the window's thread

vars == <<pc, caller, artist, title, max_results, results, fetched, fault,
          secCount, itemCount, inst, response, contacted, yields, ret, exc,
          primaryRet, searchRet, outcome, lastItem, seenVideos, sTitle, result_title,
          sStep, score, sDeltas, query, attempts, best_url,
          wpc, stop_requested, pause_requested, filtered_files, idx, processed_files,
          cache, loaded, existed, succeeded, failed, emitted, stopAt, startedPaused,
          download_worker, workers, download_button, pause_button, stop_button,
          is_paused, gui, signals>>

\* the variables of the scoring of one result
scoreVars == <<sTitle, result_title, sStep, score, sDeltas>>

\* the variables of AudioDownloader._search_youtube
variantVars == <<query, attempts, best_url>>

\* the variables of DownloadWorker
workerVars == <<wpc, stop_requested, pause_requested, filtered_files, idx, processed_files,
                cache, loaded, existed, succeeded, failed, emitted, stopAt, startedPaused>>

\* the variables of MainWindow
windowVars == <<download_worker, workers, download_button, pause_button, stop_button,
                is_paused, gui, signals>>

\* the variables outside YouTubeSearcher
appVars == <<variantVars, workerVars, windowVars>>

(***************************************************************************)
(* Bounds of the model.                                                    *)
(***************************************************************************)
MaxMaxResults == 2     \* search is called directly with max_results in 0..MaxMaxResults
MaxSections == 2       \* sections read from one scraped page
MaxEntries == 3        \* items read from one scraped page; entries of one mirror response
MaxRankList == 3       \* candidates of the list get_best_match ranks on its own
MaxFiles == 3          \* Guitar Pro files of the folder a DownloadWorker runs on
MaxWorkers == 2        \* DownloadWorkers a MainWindow creates

(***************************************************************************)
(* Program constants.                                                      *)
(***************************************************************************)
BestMatchMaxResults == 15   \* get_best_match: self.search(query, max_results=15)
StatusOK == 200

(***************************************************************************)
(* JSON values as the code sees them: a key of an object may be absent,    *)
(* null, a number or a string.                                             *)
(***************************************************************************)
JAbsent == [t |-> "absent", s |-> ""]
JNull == [t |-> "null", s |-> ""]
JNum == [t |-> "num", s |-> "7"]
JStr(s) == [t |-> "str", s |-> s]

\* dict.get(key): None when the key is absent
Get(v) == IF v.t = "absent" THEN JNull ELSE v
\* dict.get(key, ''): '' when the key is absent
GetOrEmpty(v) == IF v.t = "absent" THEN JStr("") ELSE v
\* Python truthiness: None and '' are false, a non-empty string and 7 are true
Truthy(v) == \/ v.t = "str" /\ v.s # ""
             \/ v.t = "num"
\* f-string formatting of a value
Format(v) == IF v.t = "null" THEN "None" ELSE v.s

\* line 82 with the short form of the address
WatchUrlShort(id) == "https://youtu.be/" \o Format(id)

WatchUrl(id) == "https://www.youtube.com/watch?v=" \o Format(id)

\* the dict appended to results (lines 79-83 and 126-130)
Candidate(id, ttl) == [id |-> id, title |-> ttl, url |-> WatchUrl(id)]

SeqsUpTo(S, n) == UNION {[1..k -> S] : k \in 0..n}

(***************************************************************************)
(* Exceptions.                                                             *)
(***************************************************************************)
NoExc == "none"
Exceptions == {"ConnectionError", "Timeout", "JSONDecodeError",
               "KeyError", "TypeError", "AttributeError"}

\* a narrower handler: `except requests.RequestException`
ExceptRequestException(e) == e \in {"ConnectionError", "Timeout"}

\* `except Exception as e`: every exception the backends can cause
ExceptException(e) == e \in Exceptions

\* a narrower handler: `except KeyError`
ExceptKeyError(e) == e = "KeyError"

\* `except (KeyError, TypeError)`
ExceptKeyOrType(e) == e \in {"KeyError", "TypeError"}

(***************************************************************************)
(* Strings.  A title is a string; the code matches substrings of its       *)
(* lower-cased form.                                                       *)
(***************************************************************************)
UpperChars == "ABCDEFGHIJKLMNOPQRSTUVWXYZ"
LowerChars == "abcdefghijklmnopqrstuvwxyz"

CharAt(s, i) == SubSeq(s, i, i)

LowerChar(c) ==
    IF \E i \in 1..Len(UpperChars) : CharAt(UpperChars, i) = c
    THEN CharAt(LowerChars, CHOOSE i \in 1..Len(UpperChars) : CharAt(UpperChars, i) = c)
    ELSE c

\* str.lower()
RECURSIVE lower(_)
lower(s) ==
    IF Len(s) <= 1 THEN LowerChar(s)
    ELSE lower(SubSeq(s, 1, Len(s) \div 2)) \o lower(SubSeq(s, Len(s) \div 2 + 1, Len(s)))

\* `k in s` for strings
Contains(s, k) == \E i \in 1..(Len(s) - Len(k) + 1) : SubSeq(s, i, i + Len(k) - 1) = k

\* s.startswith(k)
StartsWith(s, k) == Len(k) <= Len(s) /\ SubSeq(s, 1, Len(k)) = k

\* s.count(c) for a one-character c
Count(s, c) == Cardinality({i \in 1..Len(s) : CharAt(s, i) = c})

\* ''.join(parts)
RECURSIVE Join(_)
Join(parts) == IF parts = <<>> THEN "" ELSE Head(parts) \o Join(Tail(parts))

\* s.replace(old, new), old non-empty: every occurrence, from the left
RECURSIVE Replace(_, _, _)
Replace(s, old, new) ==
    IF Len(s) < Len(old) THEN s
    ELSE IF StartsWith(s, old)
         THEN new \o Replace(SubSeq(s, Len(old) + 1, Len(s)), old, new)
    ELSE CharAt(s, 1) \o Replace(SubSeq(s, 2, Len(s)), old, new)

\* s.strip(), for strings whose only whitespace is the space
RECURSIVE Strip(_)
Strip(s) ==
    IF s = "" THEN ""
    ELSE IF CharAt(s, 1) = " " THEN Strip(SubSeq(s, 2, Len(s)))
    ELSE IF CharAt(s, Len(s)) = " " THEN Strip(SubSeq(s, 1, Len(s) - 1))
    ELSE s

RECURSIVE SumSeq(_)
SumSeq(q) == IF q = <<>> THEN 0 ELSE Head(q) + SumSeq(Tail(q))

(***************************************************************************)
(* get_best_match: the score of one result title (lines 151-215).          *)
(***************************************************************************)
official_keywords == <<"official", "music video", "official video", "official music video">>

cover_keywords ==
    <<"cover", "covers", "covered by", "covering",
      "remix", "remixed", "remix by",
      "karaoke", "instrumental", "backing track",
      "acoustic version", "acoustic cover",
      "piano version", "guitar cover",
      "live version", "live at", "live from", "concert",
      "tribute", "tribute to",
      "reaction", "reacts to",
      "tutorial", "how to play",
      "cover version", "version by">>

Range(q) == {q[i] : i \in 1..Len(q)}

\* the penalty of one keyword of cover_keywords (lines 196-201)
KeywordPenalty(keyword) ==
    IF keyword \in {"live", "concert"} THEN 2
    ELSE IF keyword \in {"cover", "remix", "karaoke"} THEN 4
    ELSE 3

\* lines 194-201 with a `break` after the first keyword found
CoverPenaltyFirstMatch(rt) ==
    IF \E i \in 1..Len(cover_keywords) : Contains(rt, cover_keywords[i])
    THEN KeywordPenalty(cover_keywords[
             CHOOSE i \in 1..Len(cover_keywords) :
                /\ Contains(rt, cover_keywords[i])
                /\ \A j \in 1..(i - 1) : ~Contains(rt, cover_keywords[j])])
    ELSE 0

\* lines 194-201
CoverPenalty(rt) ==
    SumSeq([i \in 1..Len(cover_keywords) |->
              IF Contains(rt, cover_keywords[i])
              THEN KeywordPenalty(cover_keywords[i]) ELSE 0])

\* lines 155-161 with `score += 3` outside the else
ArtistBonusBoth(rt, a) ==
    IF a # "" /\ Contains(rt, lower(a))
    THEN (IF StartsWith(rt, lower(a)) THEN 5 + 3 ELSE 3)
    ELSE 0

\* lines 155-161
ArtistBonus(rt, a) ==
    IF a # "" /\ Contains(rt, lower(a))
    THEN (IF StartsWith(rt, lower(a)) THEN 5 ELSE 3)
    ELSE 0

\* lines 163-165
TitleBonus(rt, t) ==
    IF t # "" /\ Contains(rt, lower(t)) THEN 4 ELSE 0

\* lines 167-170 with official_keywords = ['official video']
OfficialBonusVideoOnly(rt) ==
    IF Contains(rt, "official video") THEN 4 ELSE 0

\* lines 167-170 with `score += 4` once for each keyword found
OfficialBonusPerKeyword(rt) ==
    4 * Cardinality({i \in 1..Len(official_keywords) : Contains(rt, official_keywords[i])})

\* lines 167-178
OfficialBonus(rt) ==
    IF \E w \in Range(official_keywords) : Contains(rt, w) THEN 4 ELSE 0

ChannelBonus(rt) ==
    IF \E w \in {"vevo", "records"} : Contains(rt, w) THEN 2 ELSE 0

LyricsBonus(rt) ==
    IF \E w \in {"lyrics", "lyric video"} : Contains(rt, w) THEN 1 ELSE 0

\* lines 203-205 with `>= 100`
LengthPenaltyFrom100(rt) == IF Len(rt) >= 100 THEN 1 ELSE 0

\* lines 203-205
LengthPenalty(rt) == IF Len(rt) > 100 THEN 1 ELSE 0

\* lines 207-210
SpecialCharsPenalty(rt) ==
    LET special_chars == Count(rt, "|") + Count(rt, "-")
                         + Count(rt, "(")
    IN IF special_chars > 3 THEN 1 ELSE 0

\* lines 212-215 with `<= 50`
ShortBonusUpTo50(rt, a, t) ==
    IF Len(rt) <= 50 /\ a # "" /\ t # ""
       /\ Contains(rt, lower(a)) /\ Contains(rt, lower(t))
    THEN 2 ELSE 0

\* lines 212-215
ShortBonus(rt, a, t) ==
    IF Len(rt) < 50 /\ a # "" /\ t # ""
       /\ Contains(rt, lower(a)) /\ Contains(rt, lower(t))
    THEN 2 ELSE 0

\* the score of a result whose title is the string raw (lines 152-215)
Score(raw, a, t) ==
    LET rt == lower(raw)
    IN ArtistBonus(rt, a) + TitleBonus(rt, t)
       + OfficialBonus(rt) + ChannelBonus(rt)
       + LyricsBonus(rt) - CoverPenalty(rt)
       - LengthPenalty(rt) - SpecialCharsPenalty(rt)
       + ShortBonus(rt, a, t)

(***************************************************************************)
(* get_best_match: the descending sort (line 220).  list.sort is stable,   *)
(* also with reverse=True: results of equal score keep their order.        *)
(***************************************************************************)
\* insert the pair x = <<score, result>> after every pair whose score is >= its own
RECURSIVE InsertDesc(_, _)
InsertDesc(sorted, x) ==
    IF sorted = <<>> THEN <<x>>
    ELSE IF Head(sorted)[1] >= x[1] THEN <<Head(sorted)>> \o InsertDesc(Tail(sorted), x)
    ELSE <<x>> \o sorted

RECURSIVE SortFrom(_, _)
SortFrom(sorted, rest) ==
    IF rest = <<>> THEN sorted ELSE SortFrom(InsertDesc(sorted, Head(rest)), Tail(rest))

Reverse(q) == [i \in 1..Len(q) |-> q[Len(q) + 1 - i]]

\* the sort without reverse=True: ascending
SortAsc(scored_results) == Reverse(SortFrom(<<>>, Reverse(scored_results)))

\* an ascending sort that is then reversed: descending, equal scores in reverse order
SortDescTiesReversed(scored_results) == SortFrom(<<>>, Reverse(scored_results))

\* scored_results.sort(key=lambda x: x[0], reverse=True)
SortDesc(scored_results) == SortFrom(<<>>, scored_results)

(***************************************************************************)
(* Inputs: what the backends may answer.                                   *)
(***************************************************************************)
TitleOfficial == "Metallica - One (Official Video)"
TitleCover == "One metallica cover"
TitleTutorial == "Guitar Tutorial"

\* the (artist, title) pairs get_best_match is called with
Contexts == {<<"Metallica", "One">>, <<"", "">>}

\* One item of an itemSectionRenderer's contents.  kind: "other" is an object
\* without the key videoRenderer, "scalar" is not a container, "videoNotDict"
\* has a videoRenderer that is not an object.  title: "absent" (no key title),
\* "noRuns" (an object without runs), "scalar" (null), "runs".
PItem(kind, vid, tshape, runs) ==
    [kind |-> kind, videoId |-> vid, title |-> tshape, runs |-> runs]

\* no item read yet
NoItem == PItem("none", JAbsent, "absent", <<>>)

PrimaryItems ==
    { PItem("other", JAbsent, "absent", <<>>),
      PItem("scalar", JAbsent, "absent", <<>>),
      PItem("videoNotDict", JAbsent, "absent", <<>>),
      PItem("video", JAbsent, "runs", <<JStr(TitleOfficial)>>),
      PItem("video", JStr(""), "runs", <<JStr(TitleCover)>>),
      PItem("video", JStr("a"), "absent", <<>>),
      PItem("video", JStr("a"), "noRuns", <<>>),
      PItem("video", JStr("a"), "scalar", <<>>),
      PItem("video", JStr("a"), "runs", <<>>),
      PItem("video", JStr("a"), "runs", <<JAbsent>>),
      PItem("video", JStr("a"), "runs", <<JStr("Metallica - One "), JStr("(Official Video)")>>),
      PItem("video", JStr("b"), "runs", <<JStr(TitleOfficial)>>),
      PItem("video", JStr("a"), "runs", <<JStr(TitleCover)>>),
      PItem("video", JStr("b"), "runs", <<JStr(TitleCover)>>),
      PItem("video", JStr("c"), "runs", <<JStr(TitleTutorial)>>) }

\* One entry of a mirror's JSON array.
MEntry(isDict, type, vid, ttl) ==
    [isDict |-> isDict, type |-> type, videoId |-> vid, title |-> ttl]

MirrorEntries ==
    { MEntry(FALSE, JAbsent, JAbsent, JAbsent),
      MEntry(TRUE, JStr("channel"), JAbsent, JStr(TitleOfficial)),
      MEntry(TRUE, JAbsent, JStr("a"), JStr(TitleOfficial)),
      MEntry(TRUE, JStr("video"), JStr("a"), JStr(TitleOfficial)),
      MEntry(TRUE, JStr("video"), JStr("b"), JStr(TitleOfficial)),
      MEntry(TRUE, JStr("video"), JStr("a"), JStr(TitleCover)),
      MEntry(TRUE, JStr("video"), JStr("c"), JStr(TitleTutorial)),
      MEntry(TRUE, JStr("video"), JAbsent, JStr(TitleCover)),
      MEntry(TRUE, JStr("video"), JStr("a"), JAbsent),
      MEntry(TRUE, JStr("video"), JStr("b"), JNull) }

\* One mirror's answer: a request that raised (error), or a status with a body.
MResponse(error, status, isList, data) ==
    [error |-> error, status |-> status, isList |-> isList, data |-> data]

NoResponse == MResponse(NoExc, 0, FALSE, <<>>)

MirrorResponses ==
    { MResponse("ConnectionError", 0, FALSE, <<>>),
      MResponse("Timeout", 0, FALSE, <<>>),
      MResponse(NoExc, 503, FALSE, <<>>),
      MResponse("JSONDecodeError", StatusOK, FALSE, <<>>),
      MResponse(NoExc, StatusOK, FALSE, <<>>) }
    \cup { MResponse(NoExc, StatusOK, TRUE, d) : d \in SeqsUpTo(MirrorEntries, MaxEntries) }

invidious_instances ==
    <<"https://invidious.io", "https://yewtu.be",
      "https://invidious.snopyta.org", "https://invidious.kavin.rocks">>

YouTube == "https://www.youtube.com"

(***************************************************************************)
(* _search_youtube_scraping (lines 41-98).                                 *)
(***************************************************************************)
FetchOutcomes == {"ConnectionError", "Timeout", "status", "no_marker",
                  "bad_json", "path_key", "path_type", "ok"}

\* the exception a fetch outcome raises before the traversal starts
\* (lines 45, 57 and 62), or NoExc
FetchExc(o) ==
    CASE o \in {"ConnectionError", "Timeout"} -> o
      [] o = "bad_json" -> "JSONDecodeError"
      [] o = "path_key" -> "KeyError"
      [] o = "path_type" -> "TypeError"
      [] OTHER -> NoExc

\* the exception reading one item raises (lines 69-76), or NoExc
ItemExc(item) ==
    CASE item.kind = "scalar" -> "TypeError"
      [] item.kind = "videoNotDict" -> "AttributeError"
      [] item.kind = "video" /\ item.title = "scalar" -> "TypeError"
      [] item.kind = "video" /\ item.title = "runs"
         /\ (\E i \in 1..Len(item.runs) : item.runs[i].t = "absent") -> "KeyError"
      [] item.kind = "video" /\ item.title = "runs"
         /\ (\E i \in 1..Len(item.runs) : item.runs[i].t # "str") -> "TypeError"
      [] OTHER -> NoExc

\* lines 73-76: the title of a video item that raised nothing
ItemTitle(item) ==
    IF item.title = "runs"
    THEN Join([i \in 1..Len(item.runs) |-> item.runs[i].s])
    ELSE ""

\* lines 72-83 with `if video_id:` at line 78
AppendItemAnyTitle(res, item) ==
    IF item.kind = "video" /\ Truthy(Get(item.videoId))
    THEN Append(res, Candidate(Get(item.videoId), JStr(ItemTitle(item))))
    ELSE res

\* lines 72-83: the list after one item that raised nothing
AppendItem(res, item) ==
    IF item.kind = "video" /\ Truthy(Get(item.videoId)) /\ ItemTitle(item) # ""
    THEN Append(res, Candidate(Get(item.videoId), JStr(ItemTitle(item))))
    ELSE res

\* lines 85 and 88: the test that ends the traversal
Reached(res, mr) == Len(res) >= mr

\* An exception e raised inside the traversal with the list `partial`
\* collected: the inner handler (line 91) passes and the list is returned,
\* else the outer handler (line 96) returns [], else e leaves the function.
TraversalRaise(e, partial) ==
    IF ExceptKeyOrType(e) THEN [ret |-> partial, exc |-> NoExc]
    ELSE IF ExceptException(e) THEN [ret |-> <<>>, exc |-> NoExc]
    ELSE [ret |-> <<>>, exc |-> e]

\* lines 44-62: the request, the marker, the JSON and the path to the sections
ScrapeFetch ==
    /\ pc = "scrape_fetch"
    /\ \E o \in FetchOutcomes :
         LET e == FetchExc(o)
             r == IF o \in {"path_key", "path_type"} THEN TraversalRaise(e, results)
                  ELSE IF e # NoExc /\ ~ExceptException(e) THEN [ret |-> <<>>, exc |-> e]
                  ELSE [ret |-> <<>>, exc |-> NoExc]
         IN /\ fetched' = o
            /\ contacted' = Append(contacted, YouTube)
            /\ fault' = (IF o \in {"path_key", "path_type"} THEN e ELSE NoExc)
            /\ IF o = "ok"
               THEN pc' = "scrape_section" /\ UNCHANGED <<ret, exc>>
               ELSE pc' = "scrape_return" /\ ret' = r.ret /\ exc' = r.exc
    /\ UNCHANGED <<caller, artist, title, max_results, results, secCount, itemCount,
                   inst, response, yields, primaryRet, searchRet, outcome>>
    /\ UNCHANGED <<lastItem, seenVideos, scoreVars>>
    /\ UNCHANGED appVars

\* lines 64-66: the next section of the page, or the end of the sections
ScrapeSection ==
    /\ pc = "scrape_section"
    /\ \E sec \in {"end", "other", "scalar", "noContents", "items"} :
         /\ sec # "end" => secCount < MaxSections
         /\ secCount' = (IF sec = "end" THEN secCount ELSE secCount + 1)
         /\ CASE sec = "end" ->
                   /\ pc' = "scrape_return" /\ ret' = results /\ exc' = NoExc
                   /\ UNCHANGED fault
              [] sec = "other" ->
                   /\ pc' = "scrape_section"
                   /\ UNCHANGED <<ret, exc, fault>>
              [] sec = "items" ->
                   /\ pc' = "scrape_item"
                   /\ UNCHANGED <<ret, exc, fault>>
              [] OTHER ->
                   LET e == IF sec = "scalar" THEN "TypeError" ELSE "KeyError"
                       r == TraversalRaise(e, results)
                   IN /\ pc' = "scrape_return" /\ ret' = r.ret /\ exc' = r.exc
                      /\ fault' = e
    /\ UNCHANGED <<caller, artist, title, max_results, results, fetched, itemCount,
                   inst, response, contacted, yields, primaryRet, searchRet, outcome>>
    /\ UNCHANGED <<lastItem, seenVideos, scoreVars>>
    /\ UNCHANGED appVars

\* lines 68-89: the next item of the section, or the end of its items
ScrapeItem ==
    /\ pc = "scrape_item"
    /\ \/ \* the items are exhausted: line 88
          /\ IF Reached(results, max_results)
             THEN pc' = "scrape_return" /\ ret' = results /\ exc' = NoExc
             ELSE pc' = "scrape_section" /\ UNCHANGED <<ret, exc>>
          /\ UNCHANGED <<results, itemCount, fault, lastItem>>
       \/ \E item \in PrimaryItems :
            /\ itemCount < MaxEntries
            /\ itemCount' = itemCount + 1
            /\ lastItem' = item
            /\ IF ItemExc(item) # NoExc
               THEN LET r == TraversalRaise(ItemExc(item), results)
                    IN /\ pc' = "scrape_return" /\ ret' = r.ret /\ exc' = r.exc
                       /\ fault' = ItemExc(item)
                       /\ UNCHANGED results
               ELSE /\ results' = AppendItem(results, item)
                    /\ UNCHANGED fault
                    /\ IF results' # results /\ Reached(results', max_results)
                       THEN pc' = "scrape_return" /\ ret' = results' /\ exc' = NoExc
                       ELSE pc' = "scrape_item" /\ UNCHANGED <<ret, exc>>
    /\ UNCHANGED <<caller, artist, title, max_results, fetched, secCount,
                   inst, response, contacted, yields, primaryRet, searchRet, outcome>>
    /\ UNCHANGED <<seenVideos, scoreVars>>
    /\ UNCHANGED appVars

(***************************************************************************)
(* _search_invidious (lines 100-139).                                      *)
(***************************************************************************)
Min(a, b) == IF a <= b THEN a ELSE b

\* data without the [:max_results] of line 124
SliceAll(data, mr) == data

\* data[:max_results], max_results >= 0
Slice(data, mr) == SubSeq(data, 1, Min(mr, Len(data)))

\* lines 123-130 with `item.get('type', 'video') == 'video'` at line 125
RECURSIVE VideoCandidatesUntyped(_)
VideoCandidatesUntyped(entries) ==
    IF entries = <<>> THEN <<>>
    ELSE LET item == Head(entries)
         IN (IF item.type \in {JAbsent, JStr("video")}
             THEN <<Candidate(GetOrEmpty(item.videoId), GetOrEmpty(item.title))>>
             ELSE <<>>) \o VideoCandidatesUntyped(Tail(entries))

\* lines 123-130: the candidates of the entries typed "video", in their order
RECURSIVE VideoCandidates(_)
VideoCandidates(entries) ==
    IF entries = <<>> THEN <<>>
    ELSE LET item == Head(entries)
         IN (IF Get(item.type) = JStr("video")
             THEN <<Candidate(GetOrEmpty(item.videoId), GetOrEmpty(item.title))>>
             ELSE <<>>) \o VideoCandidates(Tail(entries))

\* no response read
NoVideos == [head |-> 0, all |-> 0]

\* the entries typed "video" of a response: among the first mr and in all
Seen(resp, mr) ==
    IF resp.error # NoExc \/ resp.status # StatusOK \/ ~resp.isList THEN NoVideos
    ELSE LET video(k) == resp.data[k].type = JStr("video")
         IN [head |-> Cardinality({k \in 1..Len(resp.data) : k <= mr /\ video(k)}),
             all |-> Cardinality({k \in 1..Len(resp.data) : video(k)})]

\* lines 110-133, the body of the try for one instance: the exception it
\* raises (or NoExc) and the list `results` it builds
InstanceTry(resp, mr) ==
    IF resp.error # NoExc THEN [exc |-> resp.error, results |-> <<>>]
    ELSE IF resp.status # StatusOK THEN [exc |-> NoExc, results |-> <<>>]
    ELSE IF ~resp.isList THEN [exc |-> "TypeError", results |-> <<>>]
    ELSE IF \E i \in 1..Len(Slice(resp.data, mr)) : ~Slice(resp.data, mr)[i].isDict
         THEN [exc |-> "AttributeError", results |-> <<>>]
    ELSE [exc |-> NoExc, results |-> VideoCandidates(Slice(resp.data, mr))]

\* line 133 without the test of line 132: the first instance that answers ends the loop
ChainEndsAlways(res) == TRUE

\* line 132: `if results:` ends the loop over the instances
ChainEnds(res) == res # <<>>

\* one iteration of the loop over invidious_instances, and line 139 after the last
InvidiousRequest ==
    /\ pc = "invidious"
    /\ inst \in 1..Len(invidious_instances)
    /\ \E resp \in MirrorResponses :
         LET r == InstanceTry(resp, max_results)
         IN /\ contacted' = Append(contacted, invidious_instances[inst])
            /\ yields' = Append(yields, Len(r.results))
            /\ seenVideos' = Seen(resp, max_results)
            /\ IF r.exc # NoExc /\ ~ExceptException(r.exc)
               THEN /\ pc' = "invidious_return" /\ ret' = <<>> /\ exc' = r.exc
                    /\ response' = resp /\ results' = r.results
                    /\ UNCHANGED inst
               ELSE IF r.exc = NoExc /\ ChainEnds(r.results)
               THEN /\ pc' = "invidious_return" /\ ret' = r.results /\ exc' = NoExc
                    /\ response' = resp /\ results' = r.results
                    /\ UNCHANGED inst
               ELSE \* line 137, or the end of the body: the next instance, if any
                    /\ inst' = inst + 1
                    /\ response' = NoResponse /\ results' = <<>>
                    /\ IF inst = Len(invidious_instances)
                       THEN pc' = "invidious_return" /\ ret' = <<>> /\ exc' = NoExc
                       ELSE pc' = "invidious" /\ UNCHANGED <<ret, exc>>
    /\ UNCHANGED <<caller, artist, title, max_results, fetched, fault, secCount,
                   itemCount, primaryRet, searchRet, outcome>>
    /\ UNCHANGED <<lastItem, scoreVars>>
    /\ UNCHANGED appVars

(***************************************************************************)
(* search (lines 22-39).                                                   *)
(***************************************************************************)
Returned(list) == [kind |-> "returned", list |-> list]
Raised(e) == [kind |-> "raised", list |-> <<>>]
Pending == [kind |-> "pending", list |-> <<>>]

\* lines 37-39: an exception e reaching the handler of search
SearchRaise(e) == IF ExceptException(e) THEN Returned(<<>>) ELSE Raised(e)

\* the test of line 27 inverted: `if not results:`
PrimaryWinsInverted(res) == res = <<>>

\* line 27: `if results:` after the primary source
PrimaryWins(res) == res # <<>>

AfterSearch == IF caller = "get_best_match" THEN "rank" ELSE "done"

\* an entry point is called
CallSearch ==
    /\ pc = "idle"
    /\ \E mr \in 0..MaxMaxResults :
         /\ max_results' = mr
         /\ caller' = "search"
    /\ pc' = "scrape_fetch"
    /\ UNCHANGED <<artist, title, results, fetched, fault, secCount, itemCount, inst,
                   response, contacted, yields, ret, exc, primaryRet, searchRet, outcome>>
    /\ UNCHANGED <<lastItem, seenVideos, scoreVars>>
    /\ UNCHANGED appVars

\* line 143
CallGetBestMatch ==
    /\ pc = "idle"
    /\ \E c \in Contexts :
         /\ artist' = c[1]
         /\ title' = c[2]
    /\ caller' = "get_best_match"
    /\ max_results' = BestMatchMaxResults
    /\ pc' = "scrape_fetch"
    /\ UNCHANGED <<results, fetched, fault, secCount, itemCount, inst,
                   response, contacted, yields, ret, exc, primaryRet, searchRet, outcome>>
    /\ UNCHANGED <<lastItem, seenVideos, scoreVars>>
    /\ UNCHANGED appVars

\* lines 26-28 (and 37-39): _search_youtube_scraping has exited
SearchAfterPrimary ==
    /\ pc = "scrape_return"
    /\ primaryRet' = (IF exc # NoExc THEN Raised(exc) ELSE Returned(ret))
    /\ IF exc # NoExc
       THEN /\ searchRet' = SearchRaise(exc)
            /\ pc' = AfterSearch
            /\ UNCHANGED inst
       ELSE IF PrimaryWins(ret)
       THEN /\ searchRet' = Returned(ret)
            /\ pc' = AfterSearch
            /\ UNCHANGED inst
       ELSE /\ pc' = "invidious"
            /\ inst' = 1
            /\ UNCHANGED searchRet
    \* the frame of _search_youtube_scraping is gone
    /\ results' = <<>> /\ fetched' = "none" /\ fault' = NoExc
    /\ secCount' = 0 /\ itemCount' = 0 /\ lastItem' = NoItem
    /\ exc' = NoExc
    /\ UNCHANGED <<caller, artist, title, max_results, response, contacted, yields,
                   ret, outcome>>
    /\ UNCHANGED <<seenVideos, scoreVars>>
    /\ UNCHANGED appVars

\* lines 31-35 (and 37-39): _search_invidious has exited
SearchAfterInvidious ==
    /\ pc = "invidious_return"
    /\ searchRet' = (IF exc # NoExc THEN SearchRaise(exc) ELSE Returned(ret))
    /\ pc' = AfterSearch
    \* the frame of _search_invidious is gone
    /\ results' = <<>> /\ response' = NoResponse /\ inst' = 0
    /\ seenVideos' = NoVideos
    /\ exc' = NoExc
    /\ UNCHANGED <<caller, artist, title, max_results, fetched, fault, secCount,
                   itemCount, contacted, yields, ret, primaryRet, outcome>>
    /\ UNCHANGED <<lastItem, scoreVars>>
    /\ UNCHANGED appVars

(***************************************************************************)
(* get_best_match (lines 143-235).                                         *)
(***************************************************************************)
NoOutcome == [kind |-> "pending", url |-> ""]

\* lines 149-217: the list of (score, result) pairs
Scored(list, a, t) == [i \in 1..Len(list) |-> <<Score(list[i].title.s, a, t), list[i]>>]

\* lines 227-235 without lines 231-233: only a positive score is returned
BestPositiveOnly(sorted) ==
    IF sorted # <<>> /\ sorted[1][1] > 0 THEN [kind |-> "url", url |-> sorted[1][2].url]
    ELSE [kind |-> "none", url |-> ""]

\* lines 227-235: the value returned for the sorted pairs
Best(sorted) ==
    IF sorted # <<>> /\ sorted[1][1] > 0 THEN [kind |-> "url", url |-> sorted[1][2].url]
    ELSE IF sorted # <<>> THEN [kind |-> "url", url |-> sorted[1][2].url]
    ELSE [kind |-> "none", url |-> ""]

\* lines 145-235, once search has given its answer
Rank ==
    /\ pc = "rank"
    /\ outcome' =
         IF searchRet.kind = "raised" THEN [kind |-> "raised", url |-> ""]
         ELSE IF searchRet.list = <<>> THEN [kind |-> "none", url |-> ""]
         ELSE IF \E i \in 1..Len(searchRet.list) : searchRet.list[i].title.t # "str"
              \* line 153: None.lower() raises AttributeError, which nothing catches
              THEN [kind |-> "raised", url |-> ""]
         ELSE Best(SortDesc(Scored(searchRet.list, artist, title)))
    /\ pc' = "done"
    /\ UNCHANGED <<caller, artist, title, max_results, results, fetched, fault, secCount,
                   itemCount, inst, response, contacted, yields, ret, exc, primaryRet,
                   searchRet>>
    /\ UNCHANGED <<lastItem, seenVideos, scoreVars>>
    /\ UNCHANGED appVars

(***************************************************************************)
(* get_best_match: the body of the loop of lines 151-217 for one result,   *)
(* one step per rule.  Every step changes the local `score` (sDeltas       *)
(* keeps the changes).                                                     *)
(***************************************************************************)
MainVarsButPc == <<caller, max_results, results, fetched, fault, secCount, itemCount,
                   inst, response, contacted, yields, ret, exc, primaryRet, searchRet,
                   outcome, lastItem, seenVideos>>

MainVars == <<pc, caller, max_results, results, fetched, fault, secCount, itemCount,
              inst, response, contacted, yields, ret, exc, primaryRet, searchRet,
              outcome, lastItem, seenVideos>>

\* one rule: `score` changes by delta and the next rule follows
ApplyRule(step, delta, next) ==
    /\ pc = "score"
    /\ sStep = step
    /\ score' = score + delta
    /\ sDeltas' = (step :> delta) @@ sDeltas
    /\ sStep' = next
    /\ UNCHANGED <<MainVars, artist, title, sTitle, result_title>>
    /\ UNCHANGED appVars

\* lines 152-153
ScoreStart ==
    /\ pc = "score"
    /\ sStep = "start"
    /\ score' = 0
    /\ result_title' = lower(sTitle)
    /\ sStep' = "artist"
    /\ UNCHANGED <<MainVars, artist, title, sTitle, sDeltas>>
    /\ UNCHANGED appVars

\* lines 155-161
ScoreArtist == ApplyRule("artist", ArtistBonus(result_title, artist), "title")
\* lines 163-165
ScoreTitle == ApplyRule("title", TitleBonus(result_title, title), "official")
\* lines 167-170
ScoreOfficial == ApplyRule("official", OfficialBonus(result_title), "channel")
\* lines 172-174
ScoreChannel == ApplyRule("channel", ChannelBonus(result_title), "lyrics")
\* lines 176-178
ScoreLyrics == ApplyRule("lyrics", LyricsBonus(result_title), "covers")
\* lines 180-201
ScoreCovers == ApplyRule("covers", 0 - CoverPenalty(result_title), "length")
\* lines 203-205
ScoreLength == ApplyRule("length", 0 - LengthPenalty(result_title), "special")
\* lines 207-210
ScoreSpecial == ApplyRule("special", 0 - SpecialCharsPenalty(result_title), "short")
\* lines 212-217
ScoreShort == ApplyRule("short", ShortBonus(result_title, artist, title), "done")

\* Titles the scoring is applied to.
TitleScenarioOfficial == "Metallica - Nothing Else Matters (Official Music Video)"
TitleScenarioCover == "Nothing Else Matters acoustic cover"
TitleScenarioLive == "Metallica Nothing Else Matters Live at Moscow"
TitleLen100 == "Metallica - One (live) | la la la la la la la la la la la la la la la la la la la la la la la la lax"
TitleLen101 == "Metallica - One (live) | la la la la la la la la la la la la la la la la la la la la la la la la la l"
TitleLen120 == "Metallica - One (live) | full - la la la la la la la la la la la la la la la la la la la la la la la la la la la la la l"
TitleLen49 == "Metallica One la la la la la la la la la la la la"
TitleLen50 == "Metallica One la la la la la la la la la la la lax"

ScoreTitles ==
    { TitleOfficial, TitleCover, TitleTutorial, "",
      TitleScenarioOfficial, TitleScenarioCover, TitleScenarioLive,
      "One by Metallica", "METALLICA ONE", "Metallic one", "Metallica",
      "Official Music Video", "One (music video)", "Unofficial clip",
      "Vevo Records", "One lyrics", "Lyric video on vevo", "Official lyrics - records",
      "Song live", "Song live version", "Live concert", "Alive in concert live from here",
      "Acoustic Cover", "Covers remixed karaoke", "Remix by someone covering it",
      "Dance mix", "Piano version tribute to Metallica",
      "a-b-c", "a-b|c(d", "a-b|c(d-e", "((((",
      "Official Music Video - lyrics (Vevo Records)", "Live version acoustic cover",
      TitleLen100, TitleLen101, TitleLen120, TitleLen49, TitleLen50 }

\* the (artist, title) pairs the scoring is applied with
ScoreContexts ==
    { <<"Metallica", "One">>, <<"Metallica", "Nothing Else Matters">>, <<"", "">>,
      <<"Metallica", "">>, <<"", "One">> }

(***************************************************************************)
(* AudioDownloader._search_youtube (src/downloader.py, lines 113-141).     *)
(***************************************************************************)
\* lines 123-128 with ' official' tried first
search_queries_official_first(q) ==
    <<q \o " official", q, Replace(q, " guitar", ""), Replace(q, " - ", " ")>>

\* lines 123-128
search_queries(q) ==
    <<q, Replace(q, " guitar", ""), q \o " official", Replace(q, " - ", " ")>>

\* the queries _search_youtube is called with
VariantQueries ==
    { "Metallica One", "Metallica One guitar", "Metallica - One",
      "AC - DC guitar - Back guitar", "" }

\* the metadata it is called with: the values of 'artist' and 'title'
VariantMetadata ==
    { [artist |-> " Metallica ", title |-> "One "], [artist |-> "", title |-> ""] }

\* what one call of get_best_match gives: a url, None, or an exception
BestMatchOutcomes ==
    { [kind |-> "url", url |-> WatchUrl(JStr("a"))],
      [kind |-> "url", url |-> WatchUrl(JStr("b"))],
      [kind |-> "none", url |-> ""],
      [kind |-> "raised", url |-> ""] }

\* lines 115-128
SearchYoutubeCall ==
    /\ pc = "variants_idle"
    /\ \E q \in VariantQueries : query' = q
    /\ \E metadata \in VariantMetadata :
         /\ artist' = Strip(metadata.artist)
         /\ title' = Strip(metadata.title)
    /\ pc' = "variants_loop"
    /\ UNCHANGED <<attempts, best_url>>
    /\ UNCHANGED <<MainVarsButPc, scoreVars, workerVars, windowVars>>

\* lines 130-139: one iteration of the loop over search_queries
SearchYoutubeTry ==
    /\ pc = "variants_loop"
    /\ Len(attempts) < Len(search_queries(query))
    /\ \E o \in BestMatchOutcomes :
         /\ attempts' = Append(attempts,
                [query |-> search_queries(query)[Len(attempts) + 1], outcome |-> o])
         /\ IF o.kind = "raised"
            THEN IF ExceptException("AttributeError")
                 THEN pc' = "variants_loop" /\ UNCHANGED best_url
                 ELSE pc' = "variants_done" /\ best_url' = o
            ELSE IF o.kind = "url" /\ o.url # ""
            THEN pc' = "variants_done" /\ best_url' = o
            ELSE pc' = "variants_loop" /\ UNCHANGED best_url
    /\ UNCHANGED <<query, artist, title>>
    /\ UNCHANGED <<MainVarsButPc, scoreVars, workerVars, windowVars>>

\* line 141: every variant was tried
SearchYoutubeEnd ==
    /\ pc = "variants_loop"
    /\ Len(attempts) = Len(search_queries(query))
    /\ best_url' = [kind |-> "none", url |-> ""]
    /\ pc' = "variants_done"
    /\ UNCHANGED <<query, attempts, artist, title>>
    /\ UNCHANGED <<MainVarsButPc, scoreVars, workerVars, windowVars>>

(***************************************************************************)
(* DownloadWorker (src/main.py, lines 213-364).  The thread runs `run`;    *)
(* the window's thread calls stop, pause and resume at any moment.  A Guitar*)
(* Pro file is its rank in the sorted list find_gp_files returns.          *)
(***************************************************************************)
notWorker == <<pc, artist, title, MainVarsButPc, scoreVars, variantVars, windowVars>>

\* lines 255-269: the files neither in the cache nor excluded, in order
RECURSIVE Filter(_, _, _)
Filter(gp_files, processed, excluded) ==
    IF gp_files = <<>> THEN <<>>
    ELSE (IF Head(gp_files) \in processed \/ Head(gp_files) \in excluded
          THEN <<>> ELSE <<Head(gp_files)>>) \o Filter(Tail(gp_files), processed, excluded)

\* line 285 as `while self._pause_requested:`
PauseLoopIgnoresStop(pause, stop) == pause

\* line 285: the condition of the pause loop
PauseLoopStays(pause, stop) == pause /\ ~stop

\* lines 307-311 without the test of success
ProcessedAlways(processed, gp_file, success) == processed \cup {gp_file}

\* lines 307-311 with `if success and not self._stop_requested:`
ProcessedUnlessStopped(processed, gp_file, success) ==
    IF success /\ ~stop_requested THEN processed \cup {gp_file} ELSE processed

\* lines 307-311: processed_files after download_audio returned
Processed(processed, gp_file, success) ==
    IF success THEN processed \cup {gp_file} ELSE processed

\* _save_cache (lines 356-364): the file holds the set, or is left as it
\* was when writing raised
Saved(processed, written) == IF written THEN processed ELSE cache

\* lines 315-319: the next iteration, or download_completed after the last
NextFile ==
    /\ idx' = idx + 1
    /\ IF idx < Len(filtered_files)
       THEN wpc' = "check_stop" /\ UNCHANGED emitted
       ELSE wpc' = "done" /\ emitted' = emitted \cup {"download_completed"}

\* lines 242-277: the files are found, the cache is loaded, the files are filtered
RunStart ==
    /\ wpc = "start"
    /\ \E outcome_ \in {"raise", "files"} :
       \E n \in 0..MaxFiles :
       \E excluded \in SUBSET (1..n) :
         LET gp_files == [k \in 1..n |-> k]
             kept == Filter(gp_files, cache, excluded)
         IN IF outcome_ = "raise" \/ n = 0
            THEN \* lines 246-248, or the handler of lines 321-322
                 /\ n = 0 /\ excluded = {}
                 /\ emitted' = emitted \cup {"error_occurred"}
                 /\ wpc' = "done"
                 /\ UNCHANGED <<filtered_files, idx, processed_files, loaded>>
            ELSE /\ outcome_ = "files"
                 /\ loaded' = cache
                 /\ processed_files' = cache
                 /\ filtered_files' = kept
                 /\ IF kept = <<>>
                    THEN \* lines 271-274
                         /\ emitted' = emitted \cup {"download_completed"}
                         /\ wpc' = "done"
                         /\ UNCHANGED idx
                    ELSE /\ wpc' = "check_stop"
                         /\ idx' = 1
                         /\ UNCHANGED emitted
    /\ UNCHANGED <<stop_requested, pause_requested, cache, existed, succeeded, failed,
                   stopAt, startedPaused>>
    /\ UNCHANGED notWorker

\* lines 280-282
RunCheckStop ==
    /\ wpc = "check_stop"
    /\ wpc' = (IF stop_requested THEN "done" ELSE "pause_loop")
    /\ UNCHANGED <<stop_requested, pause_requested, filtered_files, idx, processed_files,
                   cache, loaded, existed, succeeded, failed, emitted, stopAt, startedPaused>>
    /\ UNCHANGED notWorker

\* lines 285-287: one test of the pause loop, and the sleep when it holds
RunPauseLoop ==
    /\ wpc = "pause_loop"
    /\ wpc' = (IF PauseLoopStays(pause_requested, stop_requested)
               THEN "pause_loop" ELSE "check_stop_again")
    /\ UNCHANGED <<stop_requested, pause_requested, filtered_files, idx, processed_files,
                   cache, loaded, existed, succeeded, failed, emitted, stopAt, startedPaused>>
    /\ UNCHANGED notWorker

\* lines 289-291
RunCheckStopAgain ==
    /\ wpc = "check_stop_again"
    /\ wpc' = (IF stop_requested THEN "done" ELSE "audio_exists")
    /\ UNCHANGED <<stop_requested, pause_requested, filtered_files, idx, processed_files,
                   cache, loaded, existed, succeeded, failed, emitted, stopAt, startedPaused>>
    /\ UNCHANGED notWorker

\* lines 294-305: the audio file exists and the file is cached (and the
\* iteration ends, lines 315-319), or download_audio is called
RunAudioExists ==
    /\ wpc = "audio_exists"
    /\ LET gp_file == filtered_files[idx]
       IN \/ \E written \in BOOLEAN :
               /\ existed' = existed \cup {gp_file}
               /\ processed_files' = processed_files \cup {gp_file}
               /\ cache' = Saved(processed_files', written)
               /\ NextFile
               /\ UNCHANGED startedPaused
          \/ /\ wpc' = "downloading"
             /\ startedPaused' = (pause_requested /\ ~stop_requested)
             /\ UNCHANGED <<existed, processed_files, cache, idx, emitted>>
    /\ UNCHANGED <<stop_requested, pause_requested, filtered_files, loaded, succeeded,
                   failed, stopAt>>
    /\ UNCHANGED notWorker

\* lines 305-319: download_audio returns True or False
RunDownloadReturn ==
    /\ wpc = "downloading"
    /\ \E success \in BOOLEAN :
       \E written \in BOOLEAN :
         LET gp_file == filtered_files[idx]
         IN /\ written \/ success
            /\ succeeded' = (IF success THEN succeeded \cup {gp_file} ELSE succeeded)
            /\ failed' = (IF success THEN failed ELSE failed \cup {gp_file})
            /\ processed_files' = Processed(processed_files, gp_file, success)
            /\ cache' = (IF success THEN Saved(processed_files', written) ELSE cache)
    /\ NextFile
    /\ startedPaused' = FALSE
    /\ UNCHANGED <<stop_requested, pause_requested, filtered_files, loaded, existed, stopAt>>
    /\ UNCHANGED notWorker

\* the worker thread is running
IsRunning == wpc \notin {"none", "done"}

\* DownloadWorker.stop (lines 230-232)
Stop ==
    /\ IsRunning
    /\ stop_requested' = TRUE
    /\ stopAt' = (IF wpc = "downloading" /\ ~stop_requested THEN idx ELSE stopAt)
    /\ UNCHANGED <<wpc, pause_requested, filtered_files, idx, processed_files, cache,
                   loaded, existed, succeeded, failed, emitted, startedPaused>>
    /\ UNCHANGED notWorker

\* DownloadWorker.pause (lines 234-236)
Pause ==
    /\ IsRunning
    /\ pause_requested' = TRUE
    /\ UNCHANGED <<wpc, stop_requested, filtered_files, idx, processed_files, cache,
                   loaded, existed, succeeded, failed, emitted, stopAt, startedPaused>>
    /\ UNCHANGED notWorker

\* DownloadWorker.resume (lines 238-240)
Resume ==
    /\ IsRunning
    /\ pause_requested' = FALSE
    /\ UNCHANGED <<wpc, stop_requested, filtered_files, idx, processed_files, cache,
                   loaded, existed, succeeded, failed, emitted, stopAt, startedPaused>>
    /\ UNCHANGED notWorker

(***************************************************************************)
(* MainWindow (src/main.py): the handlers that create, pause and stop      *)
(* DownloadWorkers and that enable the buttons.  A handler runs on the     *)
(* window's thread; of a worker's run only its end is kept here: it emits  *)
(* download_completed or error_occurred, or returns on a stop.             *)
(***************************************************************************)
notWindow == <<pc, artist, title, MainVarsButPc, scoreVars, variantVars, workerVars>>

\* QThread.isRunning of worker w
isRunning(w) == workers[w].running

\* the workers that are running
Running == {w \in DOMAIN workers : isRunning(w)}

\* check_ready_to_download (lines 792-796), which browse_folder and
\* browse_output_folder call: both folders are selected or not
CheckReadyToDownload ==
    /\ gui = "idle"
    /\ \E folder_selected \in BOOLEAN, output_selected \in BOOLEAN :
         download_button' = (folder_selected /\ output_selected)
    /\ UNCHANGED <<download_worker, workers, pause_button, stop_button, is_paused, gui,
                   signals>>
    /\ UNCHANGED notWindow

\* start_download (lines 798-834), the slot of download_button.clicked
StartDownload ==
    /\ gui = "idle"
    /\ download_button
    /\ Len(workers) < MaxWorkers
    /\ \E paths_exist \in BOOLEAN :
         IF ~paths_exist
         THEN \* lines 803-809
              UNCHANGED <<download_worker, workers, download_button, pause_button,
                          stop_button, is_paused>>
         ELSE /\ download_button' = FALSE
              /\ pause_button' = TRUE
              /\ stop_button' = TRUE
              /\ is_paused' = FALSE
              /\ workers' = Append(workers, [running |-> TRUE, stop |-> FALSE,
                                             pause |-> FALSE])
              /\ download_worker' = Len(workers) + 1
    /\ UNCHANGED <<gui, signals>>
    /\ UNCHANGED notWindow

\* download_finished (lines 844-853), the slot of download_completed
DownloadFinished ==
    /\ gui = "idle"
    /\ signals # <<>>
    /\ Head(signals) = "download_completed"
    /\ signals' = Tail(signals)
    /\ download_button' = TRUE
    /\ pause_button' = FALSE
    /\ stop_button' = FALSE
    /\ is_paused' = FALSE
    /\ UNCHANGED <<download_worker, workers, gui>>
    /\ UNCHANGED notWindow

\* download_error (lines 855-862), the slot of error_occurred
DownloadError ==
    /\ gui = "idle"
    /\ signals # <<>>
    /\ Head(signals) = "error_occurred"
    /\ signals' = Tail(signals)
    /\ download_button' = TRUE
    /\ pause_button' = FALSE
    /\ stop_button' = FALSE
    /\ UNCHANGED <<download_worker, workers, is_paused, gui>>
    /\ UNCHANGED notWindow

\* toggle_pause (lines 864-876), the slot of pause_button.clicked
TogglePause ==
    /\ gui = "idle"
    /\ pause_button
    /\ IF download_worker # 0 /\ isRunning(download_worker)
       THEN /\ workers' = [workers EXCEPT ![download_worker].pause = ~is_paused]
            /\ is_paused' = ~is_paused
       ELSE UNCHANGED <<workers, is_paused>>
    /\ UNCHANGED <<download_worker, download_button, pause_button, stop_button, gui, signals>>
    /\ UNCHANGED notWindow

\* stop_download (lines 878-891), the slot of stop_button.clicked, up to the
\* call of wait(3000)
StopDownload ==
    /\ gui = "idle"
    /\ stop_button
    /\ IF download_worker # 0 /\ isRunning(download_worker)
       THEN \E reply \in {"Yes", "No"} :
              IF reply = "Yes"
              THEN /\ workers' = [workers EXCEPT ![download_worker].stop = TRUE]
                   /\ gui' = "waiting"
              ELSE UNCHANGED <<workers, gui>>
       ELSE UNCHANGED <<workers, gui>>
    /\ UNCHANGED <<download_worker, download_button, pause_button, stop_button, is_paused,
                   signals>>
    /\ UNCHANGED notWindow

\* stop_download (lines 891-898): wait(3000) returns, the worker having
\* finished or the three seconds having passed
StopDownloadWaited ==
    /\ gui = "waiting"
    /\ gui' = "idle"
    /\ download_button' = TRUE
    /\ pause_button' = FALSE
    /\ stop_button' = FALSE
    /\ is_paused' = FALSE
    /\ UNCHANGED <<download_worker, workers, signals>>
    /\ UNCHANGED notWindow

\* the end of a worker's run
Finish(w, signal) ==
    /\ workers' = [workers EXCEPT ![w].running = FALSE]
    /\ signals' = signals \o signal
    /\ UNCHANGED <<download_worker, download_button, pause_button, stop_button, is_paused,
                   gui>>
    /\ UNCHANGED notWindow

\* DownloadWorker.run emits download_completed (lines 273, 319) and returns
WorkerCompletes == \E w \in Running : Finish(w, <<"download_completed">>)

\* DownloadWorker.run emits error_occurred (lines 247, 322) and returns
WorkerFails == \E w \in Running : Finish(w, <<"error_occurred">>)

\* DownloadWorker.run returns at a check of the stop flag (lines 280-282, 289-291)
WorkerStops == \E w \in Running : workers[w].stop /\ Finish(w, <<>>)

(***************************************************************************)
(* The state of the callers of YouTubeSearcher before they run.            *)
(***************************************************************************)
NoUrl == [kind |-> "pending", url |-> ""]

InitVariants ==
    /\ query = ""
    /\ attempts = <<>>
    /\ best_url = NoUrl

\* a DownloadWorker just constructed (lines 220-228); the cache file is
\* what earlier runs left
InitWorker ==
    /\ wpc = "none"
    /\ stop_requested = FALSE
    /\ pause_requested = FALSE
    /\ filtered_files = <<>>
    /\ idx = 0
    /\ processed_files = {}
    /\ cache = {}
    /\ loaded = {}
    /\ existed = {}
    /\ succeeded = {}
    /\ failed = {}
    /\ emitted = {}
    /\ stopAt = 0
    /\ startedPaused = FALSE

\* MainWindow just constructed (lines 422-423, 638-639, 659-660, 680-681)
InitWindow ==
    /\ download_worker = 0
    /\ workers = <<>>
    /\ download_button = FALSE
    /\ pause_button = FALSE
    /\ stop_button = FALSE
    /\ is_paused = FALSE
    /\ gui = "idle"
    /\ signals = <<>>

InitApp == InitVariants /\ InitWorker /\ InitWindow

(***************************************************************************)
(* The specification.                                                      *)
(***************************************************************************)
\* no call of YouTubeSearcher is in progress
SearcherIdle ==
    /\ max_results = 0
    /\ results = <<>>
    /\ fetched = "none"
    /\ fault = NoExc
    /\ secCount = 0
    /\ itemCount = 0
    /\ inst = 0
    /\ response = NoResponse
    /\ contacted = <<>>
    /\ yields = <<>>
    /\ ret = <<>>
    /\ exc = NoExc
    /\ primaryRet = Pending
    /\ searchRet = Pending
    /\ outcome = NoOutcome
    /\ lastItem = NoItem
    /\ seenVideos = NoVideos
    /\ sTitle = ""
    /\ result_title = ""
    /\ sStep = "idle"
    /\ score = 0
    /\ sDeltas = <<>>

Init ==
    /\ pc = "idle"
    /\ caller = "none"
    /\ artist = ""
    /\ title = ""
    /\ max_results = 0
    /\ results = <<>>
    /\ fetched = "none"
    /\ fault = NoExc
    /\ secCount = 0
    /\ itemCount = 0
    /\ inst = 0
    /\ response = NoResponse
    /\ contacted = <<>>
    /\ yields = <<>>
    /\ ret = <<>>
    /\ exc = NoExc
    /\ primaryRet = Pending
    /\ searchRet = Pending
    /\ outcome = NoOutcome
    /\ lastItem = NoItem
    /\ seenVideos = NoVideos
    /\ InitApp
    /\ sTitle = ""
    /\ result_title = ""
    /\ sStep = "idle"
    /\ score = 0
    /\ sDeltas = <<>>

Next ==
    \/ CallSearch
    \/ CallGetBestMatch
    \/ ScrapeFetch
    \/ ScrapeSection
    \/ ScrapeItem
    \/ SearchAfterPrimary
    \/ InvidiousRequest
    \/ SearchAfterInvidious
    \/ Rank

Spec == Init /\ [][Next]_vars

\* The scoring of one result, for every title of ScoreTitles and every
\* (artist, title) pair of ScoreContexts.
InitScore ==
    /\ pc = "score"
    /\ caller = "get_best_match"
    /\ \E c \in ScoreContexts : artist = c[1] /\ title = c[2]
    /\ sTitle \in ScoreTitles
    /\ result_title = ""
    /\ sStep = "start"
    /\ score = 0
    /\ sDeltas = <<>>
    /\ max_results = BestMatchMaxResults
    /\ results = <<>>
    /\ fetched = "none"
    /\ fault = NoExc
    /\ secCount = 0
    /\ itemCount = 0
    /\ inst = 0
    /\ response = NoResponse
    /\ contacted = <<>>
    /\ yields = <<>>
    /\ ret = <<>>
    /\ exc = NoExc
    /\ primaryRet = Pending
    /\ searchRet = Pending
    /\ outcome = NoOutcome
    /\ lastItem = NoItem
    /\ seenVideos = NoVideos
    /\ InitApp

NextScore ==
    \/ ScoreStart
    \/ ScoreArtist
    \/ ScoreTitle
    \/ ScoreOfficial
    \/ ScoreChannel
    \/ ScoreLyrics
    \/ ScoreCovers
    \/ ScoreLength
    \/ ScoreSpecial
    \/ ScoreShort

SpecScore == InitScore /\ [][NextScore]_vars

\* The candidates get_best_match ranks in the scenario of the three titles,
\* with two more titles.
RankCandidates ==
    { Candidate(JStr("o"), JStr(TitleScenarioOfficial)),
      Candidate(JStr("c"), JStr(TitleScenarioCover)),
      Candidate(JStr("l"), JStr(TitleScenarioLive)),
      Candidate(JStr("k"), JStr(TitleCover)),
      Candidate(JStr("t"), JStr(TitleTutorial)) }

RankContexts == { <<"Metallica", "Nothing Else Matters">>, <<"", "">> }

\* get_best_match once the primary source answered search with a list of up
\* to MaxRankList candidates of RankCandidates, in every order.
InitRank ==
    /\ pc = "rank"
    /\ caller = "get_best_match"
    /\ \E c \in RankContexts : artist = c[1] /\ title = c[2]
    /\ searchRet \in { Returned(l) : l \in SeqsUpTo(RankCandidates, MaxRankList) }
    /\ primaryRet = searchRet
    /\ ret = searchRet.list
    /\ contacted = <<YouTube>>
    /\ max_results = BestMatchMaxResults
    /\ results = <<>>
    /\ fetched = "none"
    /\ fault = NoExc
    /\ secCount = 0
    /\ itemCount = 0
    /\ inst = 0
    /\ response = NoResponse
    /\ yields = <<>>
    /\ exc = NoExc
    /\ outcome = NoOutcome
    /\ lastItem = NoItem
    /\ seenVideos = NoVideos
    /\ InitApp
    /\ sTitle = ""
    /\ result_title = ""
    /\ sStep = "idle"
    /\ score = 0
    /\ sDeltas = <<>>

NextRank == Rank

SpecRank == InitRank /\ [][NextRank]_vars

\* AudioDownloader._search_youtube, for every query of VariantQueries and
\* every sequence of answers of get_best_match.
InitVariantsCall ==
    /\ pc = "variants_idle"
    /\ caller = "_search_youtube"
    /\ artist = ""
    /\ title = ""
    /\ SearcherIdle
    /\ InitApp

NextVariants ==
    \/ SearchYoutubeCall
    \/ SearchYoutubeTry
    \/ SearchYoutubeEnd

SpecVariants == InitVariantsCall /\ [][NextVariants]_vars

\* One run of a DownloadWorker that was started, on a folder of up to
\* MaxFiles files, with any cache file left by earlier runs.
InitRun ==
    /\ pc = "worker"
    /\ caller = "DownloadWorker"
    /\ artist = ""
    /\ title = ""
    /\ SearcherIdle
    /\ InitVariants
    /\ wpc = "start"
    /\ stop_requested = FALSE
    /\ pause_requested = FALSE
    /\ filtered_files = <<>>
    /\ idx = 0
    /\ processed_files = {}
    /\ cache \in SUBSET (1..MaxFiles)
    /\ loaded = {}
    /\ existed = {}
    /\ succeeded = {}
    /\ failed = {}
    /\ emitted = {}
    /\ stopAt = 0
    /\ startedPaused = FALSE
    /\ InitWindow

\* the steps of the worker thread
RunStep ==
    \/ RunStart
    \/ RunCheckStop
    \/ RunPauseLoop
    \/ RunCheckStopAgain
    \/ RunAudioExists
    \/ RunDownloadReturn

NextWorker ==
    \/ RunStep
    \/ Stop
    \/ Pause
    \/ Resume

SpecWorker == InitRun /\ [][NextWorker]_vars

\* the worker thread keeps running and the download in progress returns
SpecWorkerFair == SpecWorker /\ WF_vars(RunStep)

\* A MainWindow and the user's clicks, with up to MaxWorkers workers.
InitMainWindow ==
    /\ pc = "window"
    /\ caller = "MainWindow"
    /\ artist = ""
    /\ title = ""
    /\ SearcherIdle
    /\ InitVariants
    /\ InitWorker
    /\ InitWindow

NextWindow ==
    \/ CheckReadyToDownload
    \/ StartDownload
    \/ DownloadFinished
    \/ DownloadError
    \/ TogglePause
    \/ StopDownload
    \/ StopDownloadWaited
    \/ WorkerCompletes
    \/ WorkerFails
    \/ WorkerStops

SpecWindow == InitMainWindow /\ [][NextWindow]_vars

(***************************************************************************)
(* Properties.                                                             *)
(***************************************************************************)
SearchExited == pc \in {"rank", "done"}
BestMatchExited == pc = "done" /\ caller = "get_best_match"

\* the scores of the candidates search returned, when all their titles are strings
AllTitlesStrings == \A i \in 1..Len(searchRet.list) : searchRet.list[i].title.t = "str"
\* Score over the titles and the (artist, title) pairs of the inputs, computed once
KnownTitles ==
    {TitleOfficial, TitleCover, TitleTutorial, "",
     TitleScenarioOfficial, TitleScenarioCover, TitleScenarioLive}
ScoreTable ==
    {<<t, c, Score(t, c[1], c[2])>> : t \in KnownTitles, c \in Contexts \cup RankContexts}
ScoreOf(i) ==
    (CHOOSE p \in ScoreTable :
        p[1] = searchRet.list[i].title.s /\ p[2] = <<artist, title>>)[3]
MaxScore == CHOOSE m \in {ScoreOf(i) : i \in 1..Len(searchRet.list)} :
                \A j \in 1..Len(searchRet.list) : ScoreOf(j) <= m

\* C1: search never raises: whatever the primary source and the mirrors
\* answer (network error, timeout, bad status, missing marker, bad JSON,
\* unexpected shape), search gives its caller a list, and no exception is
\* in flight out of a source strategy.
C1_SearchNeverRaises ==
    /\ exc = NoExc
    /\ searchRet.kind # "raised"
    /\ SearchExited => searchRet.kind = "returned"

\* search returned the empty list after the primary source and all four mirrors failed
C1_Witness ==
    /\ pc = "done" /\ caller = "search"
    /\ searchRet = Returned(<<>>)
    /\ Len(contacted) = 1 + Len(invidious_instances)

\* C2: the list search returns has at most max_results candidates, for
\* every max_results >= 0 (0 included) and whichever source produced it.
C2_AtMostMaxResults ==
    searchRet.kind = "returned" => Len(searchRet.list) <= max_results

\* C3: first non-empty source wins: a mirror is contacted only after the
\* primary source returned the empty list, and when the primary source
\* returned candidates search returns exactly those, no mirror contacted.
C3_FirstNonEmptyWins ==
    /\ (pc \in {"invidious", "invidious_return"} \/ Len(contacted) > 1)
         => primaryRet = Returned(<<>>) /\ contacted[1] = YouTube
    /\ (SearchExited /\ primaryRet.kind = "returned" /\ primaryRet.list # <<>>)
         => searchRet = primaryRet /\ contacted = <<YouTube>>

\* search returned the two candidates of the primary source
C3_Witness ==
    /\ SearchExited
    /\ Len(primaryRet.list) = 2
    /\ searchRet = primaryRet
    /\ contacted = <<YouTube>>

\* C4: the mirrors are contacted in list order, one at a time; a mirror is
\* contacted only when every mirror before it yielded nothing (it raised,
\* timed out, answered a bad status or had no video entry); the first
\* mirror that yields candidates ends the chain and its candidates are
\* returned; when all fail the fallback returns the empty list.
C4_MirrorChain ==
    /\ Len(yields) = (IF contacted = <<>> THEN 0 ELSE Len(contacted) - 1)
    /\ \A i \in 1..Len(yields) :
         /\ i <= Len(invidious_instances)
         /\ contacted[i + 1] = invidious_instances[i]
         /\ i < Len(yields) => yields[i] = 0
    /\ pc = "invidious" => inst = Len(yields) + 1 /\ inst <= Len(invidious_instances)
                           /\ \A i \in 1..Len(yields) : yields[i] = 0
    /\ pc = "invidious_return" =>
         /\ exc = NoExc
         /\ IF ret # <<>>
            THEN /\ yields[Len(yields)] = Len(ret)
                 /\ response.error = NoExc /\ response.status = StatusOK
                 /\ ret = InstanceTry(response, max_results).results
            ELSE /\ Len(yields) = Len(invidious_instances)
                 /\ \A i \in 1..Len(yields) : yields[i] = 0
    /\ (SearchExited /\ yields # <<>>) =>
         \/ yields[Len(yields)] > 0 /\ Len(searchRet.list) = yields[Len(yields)]
         \/ Len(yields) = Len(invidious_instances) /\ searchRet.list = <<>>

\* the first two mirrors were skipped and the third ended the chain
C4_Witness ==
    /\ pc = "invidious_return"
    /\ contacted = <<YouTube>> \o SubSeq(invidious_instances, 1, 3)
    /\ yields = <<0, 0, 2>>
    /\ Len(ret) = 2

C6_ReturnsListedUrl ==
    (BestMatchExited /\ searchRet.kind = "returned" /\ searchRet.list # <<>>)
      => /\ outcome.kind = "url"
         /\ \E i \in 1..Len(searchRet.list) : searchRet.list[i].url = outcome.url

\* C7: get_best_match returns none exactly when search returned the empty
\* list; when the primary source and every mirror failed, search returned
\* the empty list and get_best_match returned none.
C7_NoneIffEmpty ==
    BestMatchExited =>
      /\ outcome.kind = "none" <=> searchRet = Returned(<<>>)
      /\ (Len(yields) = Len(invidious_instances) /\ yields[Len(yields)] = 0)
           => searchRet = Returned(<<>>) /\ outcome.kind = "none"

\* every source failed and get_best_match returned none
C7_Witness ==
    /\ BestMatchExited
    /\ Len(contacted) = 1 + Len(invidious_instances)
    /\ searchRet = Returned(<<>>)
    /\ outcome.kind = "none"

\* C8: the url get_best_match returns is that of a candidate whose score is
\* >= the score of every candidate of the list, and the top candidate is
\* returned whatever the sign of its score.
C8_ReturnsMaxScore ==
    /\ (BestMatchExited /\ outcome.kind = "url") =>
         \E i \in 1..Len(searchRet.list) :
            /\ searchRet.list[i].url = outcome.url
            /\ \A j \in 1..Len(searchRet.list) : ScoreOf(i) >= ScoreOf(j)
    /\ (BestMatchExited /\ searchRet.list # <<>> /\ AllTitlesStrings) => outcome.kind = "url"

\* candidates of different non-positive scores, the greater one returned
C8_Witness ==
    /\ BestMatchExited /\ outcome.kind = "url"
    /\ MaxScore <= 0
    /\ \E i, j \in 1..Len(searchRet.list) :
         /\ ScoreOf(i) < ScoreOf(j)
         /\ i < j
         /\ searchRet.list[j].url = outcome.url
         /\ searchRet.list[i].url # outcome.url

\* C9: when several candidates share the maximal score, get_best_match
\* returns the url of the one that comes first in the list search returned.
C9_EarliestOfTies ==
    (BestMatchExited /\ outcome.kind = "url") =>
       LET first == CHOOSE i \in 1..Len(searchRet.list) :
                      /\ ScoreOf(i) = MaxScore
                      /\ \A j \in 1..(i - 1) : ScoreOf(j) # MaxScore
       IN outcome.url = searchRet.list[first].url

\* two candidates of different urls share the maximal score, behind a lesser one
C9_Witness ==
    /\ BestMatchExited /\ outcome.kind = "url"
    /\ \E i, j \in 1..Len(searchRet.list) :
         /\ 1 < i /\ i < j
         /\ ScoreOf(i) = MaxScore /\ ScoreOf(j) = MaxScore
         /\ ScoreOf(1) < MaxScore
         /\ searchRet.list[i].url # searchRet.list[j].url
         /\ outcome.url = searchRet.list[i].url

\* C10: get_best_match returns a url or none and never raises, for every
\* backend response, a mirror entry with a null title included.
C10_BestMatchNeverRaises ==
    BestMatchExited => outcome.kind \in {"url", "none"}

\* the candidates of the list are the three titles of the scenario, the
\* official one among them, for "Metallica" and "Nothing Else Matters"
ScenarioList ==
    /\ artist = "Metallica" /\ title = "Nothing Else Matters"
    /\ searchRet.kind = "returned"
    /\ \E i \in 1..Len(searchRet.list) : searchRet.list[i].title.s = TitleScenarioOfficial
    /\ \A i \in 1..Len(searchRet.list) :
         searchRet.list[i].title.s
            \in {TitleScenarioOfficial, TitleScenarioCover, TitleScenarioLive}

\* C11: with artist "Metallica" and title "Nothing Else Matters", the
\* candidate titled "Metallica - Nothing Else Matters (Official Music Video)"
\* scores at least 13, more than the acoustic cover and the live version,
\* and get_best_match returns its url, in whatever order the candidates
\* come in the list.
C11_OfficialSelected ==
    (BestMatchExited /\ ScenarioList) =>
       /\ outcome.kind = "url"
       /\ \A i \in 1..Len(searchRet.list) :
            IF searchRet.list[i].title.s = TitleScenarioOfficial
            THEN ScoreOf(i) >= 13
            ELSE /\ ScoreOf(i) < MaxScore
                 /\ outcome.url # searchRet.list[i].url
       /\ \E i \in 1..Len(searchRet.list) :
            /\ searchRet.list[i].title.s = TitleScenarioOfficial
            /\ outcome.url = searchRet.list[i].url

\* the official candidate came last, behind the cover and the live version
C11_Witness ==
    /\ BestMatchExited /\ ScenarioList
    /\ Len(searchRet.list) = 3
    /\ searchRet.list[1].title.s = TitleScenarioCover
    /\ searchRet.list[2].title.s = TitleScenarioLive
    /\ searchRet.list[3].title.s = TitleScenarioOfficial
    /\ outcome.url = searchRet.list[3].url

\* a candidate with a non-empty id and a non-empty string title
WellFormed(c) == Truthy(c.id) /\ c.title.t = "str" /\ c.title.s # ""

\* text is the runs one after the other: each run sits at the offset that
\* the lengths of the runs before it add up to, and nothing follows the last
IsConcatenation(text, runs) ==
    LET offset(k) == SumSeq([j \in 1..(k - 1) |-> Len(runs[j].s)])
    IN /\ Len(text) = offset(Len(runs) + 1)
       /\ \A k \in 1..Len(runs) :
            SubSeq(text, offset(k) + 1, offset(k) + Len(runs[k].s)) = runs[k].s

\* the primary source holds or has returned only well-formed candidates
C12_AllWellFormed ==
    /\ pc \in {"scrape_section", "scrape_item", "scrape_return"} =>
         \A i \in 1..Len(results) : WellFormed(results[i])
    /\ pc = "scrape_return" => \A i \in 1..Len(ret) : WellFormed(ret[i])
    /\ \A i \in 1..Len(primaryRet.list) : WellFormed(primaryRet.list[i])

\* reading one item that raises nothing: either one candidate is appended,
\* whose id is the item's videoId and whose title is the item's runs
\* concatenated, or the item lacks an id or a title, the list is unchanged
\* and the traversal goes on with the next item
C12_ItemStep ==
    (itemCount' = itemCount + 1 /\ ItemExc(lastItem') = NoExc) =>
       IF /\ lastItem'.kind = "video"
          /\ Truthy(lastItem'.videoId)
          /\ lastItem'.title = "runs"
          /\ \E k \in 1..Len(lastItem'.runs) : lastItem'.runs[k].s # ""
       THEN /\ Len(results') = Len(results) + 1
            /\ SubSeq(results', 1, Len(results)) = results
            /\ results'[Len(results')].id = lastItem'.videoId
            /\ IsConcatenation(results'[Len(results')].title.s, lastItem'.runs)
       ELSE /\ results' = results
            /\ pc' = "scrape_item"

\* C12: every candidate of the primary source has a non-empty id and a
\* non-empty title, the title being the concatenation of the text runs of
\* its entry in their order; an entry lacking an id or a title is skipped
\* and the traversal goes on.
C12_PrimaryCandidates == []C12_AllWellFormed /\ [][C12_ItemStep]_vars

\* the first entry read was skipped, the second, a title of two runs,
\* became the only candidate, and the traversal goes on
C12_Witness ==
    /\ pc = "scrape_item"
    /\ itemCount = 2
    /\ Len(lastItem.runs) = 2
    /\ Len(results) = 1
    /\ results[1].id = lastItem.videoId
    /\ results[1].title.s = TitleOfficial

\* the candidates of list are, in order, entries of data typed "video":
\* f maps each candidate to its entry and is increasing
FromVideoEntries(list, data) ==
    \E f \in [1..Len(list) -> 1..Len(data)] :
       /\ \A i, j \in 1..Len(list) : i < j => f[i] < f[j]
       /\ \A i \in 1..Len(list) :
            /\ data[f[i]].type = JStr("video")
            /\ list[i].id = GetOrEmpty(data[f[i]].videoId)
            /\ list[i].title = GetOrEmpty(data[f[i]].title)

\* C13: every candidate the fallback returns corresponds to an entry of the
\* chosen mirror's response whose type is exactly "video"; an entry of
\* another type or without a type never becomes a candidate, and the
\* candidates keep the order of the response.
C13_OnlyVideoEntries ==
    (pc = "invidious_return" /\ ret # <<>>) =>
       /\ response.isList
       /\ FromVideoEntries(ret, response.data)
       /\ Len(ret) <= Cardinality({k \in 1..Len(response.data) :
                                     response.data[k].type = JStr("video")})

\* a response of a channel entry, an entry without a type and a video entry:
\* the video entry alone became a candidate
C13_Witness ==
    /\ pc = "invidious_return"
    /\ Len(ret) = 1
    /\ Len(response.data) = 3
    /\ response.data[1].type = JStr("channel")
    /\ response.data[2].type = JAbsent
    /\ response.data[3].type = JStr("video")
    /\ ret[1].id = response.data[3].videoId

\* C14: for every candidate search returns, from the primary source or from
\* a mirror, url is "https://www.youtube.com/watch?v=" followed by its id.
C14_CanonicalUrl ==
    \A i \in 1..Len(searchRet.list) :
       searchRet.list[i].url = "https://www.youtube.com/watch?v=" \o searchRet.list[i].id.s

\* search returned the one candidate of the second mirror
C14_Witness ==
    /\ SearchExited
    /\ Len(searchRet.list) = 1
    /\ searchRet.list[1].url = "https://www.youtube.com/watch?v=b"
    /\ Len(contacted) = 3

\* C15: no two candidates of the list search returns have the same id.
C15_UniqueIds ==
    \A i, j \in 1..Len(searchRet.list) :
       i # j => searchRet.list[i].id # searchRet.list[j].id

\* the rule was applied to the title being scored: sDeltas[rule] is what it
\* added to `score`
Applied(rule) == pc = "score" /\ rule \in DOMAIN sDeltas

\* C16: the artist rule adds exactly one of three values: 5 when artist is
\* non-empty and the lower-cased title starts with the lower-cased artist,
\* 3 when it is non-empty and occurs in the title but not at the start, 0
\* when it is empty or does not occur; 5 and 3 are never both added.
C16_ArtistRule ==
    Applied("artist") =>
       LET d == sDeltas["artist"]
           a == lower(artist)
           atStart == artist # "" /\ StartsWith(result_title, a)
           inside == artist # "" /\ Contains(result_title, a) /\ ~StartsWith(result_title, a)
       IN /\ d \in {0, 3, 5}
          /\ d = 5 <=> atStart
          /\ d = 3 <=> inside
          /\ d = 0 <=> (artist = "" \/ ~Contains(result_title, a))
          /\ sStep = "title" => score = d

\* the artist occurs in the title, not at its start: 3 was added
C16_Witness ==
    /\ pc = "score" /\ sStep = "title"
    /\ sTitle = "One by Metallica" /\ artist = "Metallica"
    /\ sDeltas["artist"] = 3
    /\ score = 3

\* C17: each of the three bonus groups adds its value at most once per
\* title, however many of its keywords match: 4 for the official keywords
\* (a title containing "official music video" gets 4, not a multiple), 2
\* for "vevo" or "records", 1 for "lyrics" or "lyric video"; the groups are
\* evaluated independently and add up.
C17_BonusGroups ==
    Applied("lyrics") =>
       LET has(words) == \E w \in words : Contains(result_title, w)
       IN /\ sDeltas["official"] =
               (IF has({"official", "music video", "official video", "official music video"})
                THEN 4 ELSE 0)
          /\ Contains(result_title, "official music video") => sDeltas["official"] = 4
          /\ sDeltas["channel"] = (IF has({"vevo", "records"}) THEN 2 ELSE 0)
          /\ sDeltas["lyrics"] = (IF has({"lyrics", "lyric video"}) THEN 1 ELSE 0)
          /\ sStep = "covers" =>
               score = sDeltas["artist"] + sDeltas["title"] + sDeltas["official"]
                       + sDeltas["channel"] + sDeltas["lyrics"]

\* a title matching three official keywords, both channel keywords and
\* "lyrics": 4 + 2 + 1 was added
C17_Witness ==
    /\ pc = "score" /\ sStep = "covers"
    /\ sTitle = "Official Music Video - lyrics (Vevo Records)"
    /\ artist = ""
    /\ sDeltas["official"] = 4 /\ sDeltas["channel"] = 2 /\ sDeltas["lyrics"] = 1
    /\ score = 7

\* the keyword list of the scoring table with the penalty of each keyword
ListedKeywords ==
    {"live", "concert", "cover", "remix", "karaoke", "covers", "covered by",
     "covering", "remixed", "remix by", "instrumental", "backing track",
     "acoustic version", "acoustic cover", "piano version", "guitar cover",
     "live at", "live from", "tribute", "tribute to", "reaction", "reacts to",
     "tutorial", "how to play", "cover version", "version by"}
ListedPenalty(k) ==
    IF k \in {"live", "concert"} THEN 2
    ELSE IF k \in {"cover", "remix", "karaoke"} THEN 4
    ELSE 3
\* the penalties of the keywords of ks that occur in the lower-cased title
RECURSIVE PenaltySum(_)
PenaltySum(ks) ==
    IF ks = {} THEN 0
    ELSE LET k == CHOOSE x \in ks : TRUE
         IN (IF Contains(result_title, k) THEN ListedPenalty(k) ELSE 0)
            + PenaltySum(ks \ {k})

\* C18: a title containing the keyword "live" loses 2 for that keyword, a
\* title containing "concert" loses 2 for that keyword, and the title
\* "Metallica Nothing Else Matters Live at Moscow" scores 5 for
\* "Metallica" and "Nothing Else Matters".
C18_LivePenalty ==
    /\ (Applied("covers") /\ Contains(result_title, "live")) =>
          0 - sDeltas["covers"] >= 2 + PenaltySum(ListedKeywords \ {"live"})
    /\ (Applied("covers") /\ Contains(result_title, "concert")) =>
          0 - sDeltas["covers"] >= PenaltySum({"concert"})
    /\ (pc = "score" /\ sStep = "done" /\ sTitle = TitleScenarioLive
        /\ artist = "Metallica" /\ title = "Nothing Else Matters") => score = 5

\* what the cover rule subtracted beyond the penalties of the listed
\* keywords other than "live"
Remainder == (0 - sDeltas["covers"]) - PenaltySum(ListedKeywords \ {"live"})

\* C19 as stated: every listed keyword other than "live" and "concert" that
\* occurs in the title subtracts its own penalty (4 for "cover", "remix",
\* "karaoke", 3 for the others), "acoustic cover" costs 7 in total, and a
\* keyword outside the list subtracts nothing: beyond the listed keywords
\* at most the 2 of "live" is subtracted.
C19_ListedOnly ==
    Applied("covers") =>
       /\ Remainder = 0 \/ (Contains(result_title, "live") /\ Remainder = 2)
       /\ sTitle = "Acoustic Cover" => sDeltas["covers"] = 0 - 7

\* C19 amended: every listed keyword other than "live" that occurs in the
\* title subtracts its own penalty, cumulatively ("acoustic cover" costs
\* 4 + 3 = 7); outside the list, "live version" subtracts 3 and no other
\* keyword subtracts anything.
C19_ListedAndLiveVersion ==
    Applied("covers") =>
       /\ Remainder = (IF Contains(result_title, "live version") THEN 3 ELSE 0)
       /\ sTitle = "Acoustic Cover" => sDeltas["covers"] = 0 - 7

\* "cover", "acoustic cover" and "live version" cost 4 + 3 + 3
C19_Witness ==
    /\ pc = "score" /\ sStep = "length"
    /\ sTitle = "Live version acoustic cover"
    /\ sDeltas["covers"] = 0 - 10

\* C20: the two shape penalties use strict thresholds and are independent:
\* 1 is subtracted exactly when the title has more than 100 characters
\* (exactly 100 is not penalized) and 1 exactly when '|', '-' and '('
\* occur more than 3 times in total (exactly 3 is not penalized).
C20_ShapePenalties ==
    Applied("special") =>
       LET marks == Cardinality({i \in 1..Len(sTitle) : CharAt(sTitle, i) \in {"|", "-", "("}})
       IN /\ sDeltas["length"] = (IF Len(sTitle) > 100 THEN 0 - 1 ELSE 0)
          /\ sDeltas["special"] = (IF marks > 3 THEN 0 - 1 ELSE 0)

\* a title of exactly 100 characters with exactly 3 marks lost nothing
C20_Witness ==
    /\ pc = "score" /\ sStep = "short"
    /\ sTitle = TitleLen100
    /\ Len(sTitle) = 100
    /\ sDeltas["length"] = 0
    /\ sDeltas["special"] = 0

\* C21: the short-title bonus of 2 is added exactly when the title has
\* fewer than 50 characters, artist and title are both non-empty and both
\* occur in the lower-cased title; it comes on top of the artist and title
\* bonuses, and is never added when either is empty or the title has 50
\* characters or more.
C21_ShortBonus ==
    Applied("short") =>
       LET both == /\ artist # "" /\ title # ""
                   /\ Contains(result_title, lower(artist))
                   /\ Contains(result_title, lower(title))
       IN /\ sDeltas["short"] = (IF Len(sTitle) < 50 /\ both THEN 2 ELSE 0)
          /\ (artist = "" \/ title = "" \/ Len(sTitle) >= 50) => sDeltas["short"] = 0
          /\ sDeltas["short"] = 2 => sDeltas["artist"] \in {3, 5} /\ sDeltas["title"] = 4
          /\ score = sDeltas["artist"] + sDeltas["title"] + sDeltas["official"]
                     + sDeltas["channel"] + sDeltas["lyrics"] + sDeltas["covers"]
                     + sDeltas["length"] + sDeltas["special"] + sDeltas["short"]

\* a title of 49 characters holding artist and title: 5 + 4 + 2
C21_Witness ==
    /\ pc = "score" /\ sStep = "done"
    /\ sTitle = TitleLen49 /\ Len(sTitle) = 49
    /\ artist = "Metallica" /\ title = "One"
    /\ sDeltas["short"] = 2
    /\ score = 11

\* C23: the fallback returns the video-typed entries among the first
\* max_results entries of the response only: a mirror whose first
\* max_results entries hold no video-typed entry yields nothing and the next
\* mirror is tried, also when later entries of its response are videos.
C23_TruncateThenFilter ==
    /\ yields # <<>> =>
         /\ yields[Len(yields)] \in {0, seenVideos.head} \/ SearchExited
         /\ (seenVideos.head = 0 /\ ~SearchExited) => yields[Len(yields)] = 0
    /\ (pc = "invidious_return" /\ ret # <<>>) =>
         /\ Len(ret) = seenVideos.head
         /\ FromVideoEntries(ret, SubSeq(response.data, 1, Min(max_results, Len(response.data))))
    /\ (pc = "invidious" /\ inst > 1) => yields[inst - 1] = 0

\* search(q, 2): the only video entry of the first mirror's response is its
\* third entry; the mirror yielded nothing and the second mirror is next
C23_Witness ==
    /\ pc = "invidious" /\ inst = 2
    /\ max_results = 2
    /\ seenVideos = [head |-> 0, all |-> 1]
    /\ yields = <<0>>

\* C24: every candidate search returns through a mirror has a non-empty id
\* and a non-empty title: a video-typed mirror entry without a videoId or
\* without a title never becomes a candidate.
C24_MirrorWellFormed ==
    (SearchExited /\ Len(contacted) > 1) =>
       \A i \in 1..Len(searchRet.list) : WellFormed(searchRet.list[i])

\* the four variants of each query, written out
ExpectedVariants(q) ==
    CASE q = "Metallica One" ->
           <<"Metallica One", "Metallica One", "Metallica One official", "Metallica One">>
      [] q = "Metallica One guitar" ->
           <<"Metallica One guitar", "Metallica One", "Metallica One guitar official",
             "Metallica One guitar">>
      [] q = "Metallica - One" ->
           <<"Metallica - One", "Metallica - One", "Metallica - One official",
             "Metallica One">>
      [] q = "AC - DC guitar - Back guitar" ->
           <<"AC - DC guitar - Back guitar", "AC - DC - Back",
             "AC - DC guitar - Back guitar official", "AC DC guitar Back guitar">>
      [] q = "" -> <<"", "", " official", "">>

\* C25: _search_youtube tries its four variants in fixed order (the query,
\* the query without ' guitar', the query plus ' official', the query with
\* ' - ' replaced by a space); it returns the url of the first variant for
\* which get_best_match gave one, without trying a later variant; a variant
\* that raised does not keep the later ones from being tried; it returns
\* none only when every variant gave none or raised.
C25_VariantsInOrder ==
    pc \in {"variants_loop", "variants_done"} =>
       /\ Len(attempts) <= 4
       /\ \A k \in 1..Len(attempts) :
            /\ attempts[k].query = ExpectedVariants(query)[k]
            /\ k < Len(attempts) => attempts[k].outcome.kind \in {"none", "raised"}
       /\ pc = "variants_loop" =>
            \A k \in 1..Len(attempts) : attempts[k].outcome.kind \in {"none", "raised"}
       /\ pc = "variants_done" =>
            /\ best_url.kind \in {"url", "none"}
            /\ best_url.kind = "url" =>
                 /\ attempts[Len(attempts)].outcome.kind = "url"
                 /\ best_url.url = attempts[Len(attempts)].outcome.url
            /\ best_url.kind = "none" =>
                 /\ Len(attempts) = 4
                 /\ attempts[4].outcome.kind \in {"none", "raised"}

\* the first variant raised, the second gave none, the third gave a url,
\* which was returned; the fourth was not tried
C25_Witness ==
    /\ pc = "variants_done"
    /\ query = "AC - DC guitar - Back guitar"
    /\ Len(attempts) = 3
    /\ attempts[1].outcome.kind = "raised"
    /\ attempts[2].outcome.kind = "none"
    /\ attempts[3].query = "AC - DC guitar - Back guitar official"
    /\ best_url = attempts[3].outcome
    /\ best_url.kind = "url"


(***************************************************************************)
(* DownloadWorker: stop, pause and the cache.                              *)
(***************************************************************************)
\* the files of this run the worker has dealt with
Handled == existed \cup succeeded \cup failed

\* C22: when stop() is called while download_audio runs for a file, the call
\* is not cancelled: the worker stays in it until it returns; when it has
\* returned with success the file is in the processed set, and the worker
\* then sees the stop at the check before the next file, dealing with no
\* further file.
C22_StopLeavesDownload ==
    stopAt > 0 =>
        LET gp_file == filtered_files[stopAt]
        IN /\ stop_requested
           /\ \/ wpc = "downloading" /\ idx = stopAt /\ gp_file \notin Handled
              \/ /\ gp_file \in succeeded \cup failed
                 /\ gp_file \in succeeded => gp_file \in processed_files
                 /\ idx = stopAt + 1
                 /\ wpc \in {"check_stop", "done"}
                 /\ \A k \in (stopAt + 1)..Len(filtered_files) :
                        filtered_files[k] \notin Handled

C22_Witness ==
    /\ stopAt = 1
    /\ wpc = "done"
    /\ Len(filtered_files) = 2
    /\ filtered_files[1] \in succeeded
    /\ filtered_files[1] \in cache
    /\ filtered_files[2] \notin Handled
    /\ emitted = {}

\* C26 (states): the processed set holds only files loaded from the cache at
\* the start, files whose audio existed and files whose download succeeded;
\* a file whose download failed is neither in the set nor in the cache file.
C26_ProcessedJustified ==
    /\ processed_files \subseteq loaded \cup existed \cup succeeded
    /\ failed \cap (processed_files \cup cache) = {}

\* C26 (steps): whenever the cache file is written, it is written with the
\* processed set
C26_SaveStep == cache' # cache => cache' = processed_files'

\* C26: in every state of a run the processed set written to the cache holds
\* a file only if it was loaded at the start, its audio existed, or its
\* download succeeded; a file whose download failed is never added.
C26_CacheOnlySuccess == []C26_ProcessedJustified /\ [][C26_SaveStep]_vars

C26_Witness ==
    /\ wpc = "done"
    /\ Cardinality(loaded) = 1
    /\ failed # {}
    /\ succeeded # {}
    /\ cache = loaded \cup succeeded

\* C27: once stop() has been called on a running worker, the run ends, the
\* download in progress returning; also from the pause loop, without resume().
C27_StopTerminates == stop_requested ~> (wpc = "done")

C27_Witness ==
    /\ stop_requested
    /\ pause_requested
    /\ wpc = "done"
    /\ idx = 1
    /\ Handled = {}

\* C28: no download begins while pause is requested and stop is not.
C28_NoDownloadWhilePaused == wpc = "downloading" => ~startedPaused

\* C29: a run on which stop() was called does not emit download_completed.
C29_NoCompletedAfterStop == stop_requested => "download_completed" \notin emitted

(***************************************************************************)
(* MainWindow: one worker at a time.                                       *)
(***************************************************************************)
\* C30: at most one DownloadWorker is running at any time, and the download
\* button is enabled only when no worker started before is still running.
C30_AtMostOneWorker ==
    /\ Cardinality(Running) <= 1
    /\ download_button => Running = {}
====
